---- MODULE Spec2Model ----
(***************************************************************************)
(* A model of pypowerup.PowerupConnection (src/pypowerup.py): a session    *)
(* object wrapping a BLE link client.  The link client library (bleak) is  *)
(* the environment: every awaited call on it may succeed or raise, a link  *)
(* may drop at any time, and the library delivers notifications to the     *)
(* registered callback on its own schedule.                                *)
(***************************************************************************)
EXTENDS Integers, Sequences, FiniteSets, TLC

VARIABLES
    connected,     \* self.connected
    client,        \* self.client: None, or the id of a BleakClient object
    device,        \* self.device: None, or the descriptor the scan returned
    links,         \* environment: the state of every BleakClient ever created
    subs,          \* environment: per client, the callback of start_notify
    delivered,     \* environment: notification payloads delivered so far
    handlerCalls,  \* invocations of the caller's callback, in order
    last           \* the last API call: its input, outcome and transport calls

vars == <<connected, client, device, links, subs, delivered, handlerCalls, last>>

----------------------------------------------------------------------------
(* Bounds of the model. *)

\* BleakClient objects one run may create
MaxLinks == 3
\* notification payloads one run may deliver
MaxDeliveries == 3
\* characteristics one service of the device may expose
MaxChars == 3
\* how far beyond the documented range the inputs of the byte specification go
Slack == 2

----------------------------------------------------------------------------
(* Program constants. *)

POWERUP_SERVICE_UUID == "86c3810e-f171-40d9-a117-26b300768cd6"
BATTERY_SERVICE_UUID == "0000180f-0000-1000-8000-00805f9b34fb"
MOTOR_CONTROL_UUID == "86c3810e-0010-40d9-a117-26b300768cd6"
RUDDER_CONTROL_UUID == "86c3810e-0021-40d9-a117-26b300768cd6"
BATTERY_LEVEL_UUID == "00002a19-0000-1000-8000-00805f9b34fb"
BATTERY_CHARGING_UUID == "86c3810e-0040-40d9-a117-26b300768cd6"

DefaultTarget == "TailorToys PowerUp"

MinSpeed == 0
MaxSpeed == 254
MinAngle == -128
MaxAngle == 127
ByteMask == 255

None == "None"
\* self.device = None, and the scan's "no device"
NoDevice == [name |-> None, address |-> None]
Handles == 1..MaxLinks
Byte == 0..255

----------------------------------------------------------------------------
(* Python primitives the code uses. *)

\* a & b on Python's unbounded two's-complement integers, for b >= 0:
\* bit by bit, with floor division so that negative a keeps its sign bits.
RECURSIVE BitAnd(_, _)
BitAnd(a, b) ==
    IF b = 0 THEN 0
    ELSE (a % 2) * (b % 2) + 2 * BitAnd(a \div 2, b \div 2)

\* bytes([...]): every element must be in range(256), else ValueError.
bytes(xs) ==
    IF \A i \in 1..Len(xs) : xs[i] \in Byte THEN xs ELSE "ValueError"

\* int(data[0]): the first element of a byte string, as an unsigned integer.
int_first(data) == data[1]

\* Mutant: only the byte 1 counts as true.
bool_first_is_one(data) == data[1] = 1

\* bool(data[0]): zero is falsy, every other integer truthy.
bool_first(data) == data[1] # 0

----------------------------------------------------------------------------
(* The link client (environment). *)

\* A read, write or subscribe on client h succeeds only while its link is up,
\* and may fail even then (ok is the environment's choice).
LinkUp(h) == h \in Handles /\ links[h] = "open"

\* A call on the transport, as recorded in last.calls: what was called, on
\* which client, whether that client's link was up, and whether the call
\* returned (ok) or raised.
Call(fn, h, ep, data, ok) ==
    [fn |-> fn, link |-> h, up |-> LinkUp(h), ep |-> ep, data |-> data,
     ok |-> ok]
TransportOk(h, ok) == LinkUp(h) /\ ok

\* The next BleakClient object: 0 when the model's supply is used up.
FreshHandle ==
    IF \E h \in Handles : links[h] = "unused"
    THEN CHOOSE h \in Handles : links[h] = "unused" /\
                                \A g \in Handles : links[g] = "unused" => h <= g
    ELSE 0

OpenLinks == {h \in Handles : links[h] = "open"}

Result(op, arg, outcome, ret, calls) ==
    [op |-> op, arg |-> arg, pre |-> connected,
     outcome |-> outcome, ret |-> ret, calls |-> calls]

----------------------------------------------------------------------------
Init ==
    /\ connected = FALSE
    /\ client = 0
    /\ device = NoDevice
    /\ links = [h \in Handles |-> "unused"]
    /\ subs = [h \in Handles |-> None]
    /\ delivered = <<>>
    /\ handlerCalls = <<>>
    /\ last = [op |-> "__init__", arg |-> None, pre |-> FALSE,
               outcome |-> "ok", ret |-> None, calls |-> <<>>]

----------------------------------------------------------------------------
(* connect *)

\* str.lower() on the names the model uses.
lower(s) ==
    CASE s = "TailorToys PowerUp" -> "tailortoys powerup"
      [] s = "TAILORTOYS POWERUP" -> "tailortoys powerup"
      [] s = "tailortoys powerup" -> "tailortoys powerup"
      [] s = "Other Toy" -> "other toy"
      [] OTHER -> s

\* The devices in range.  A device may advertise no name (d.name is None).
PowerUp == [name |-> "TailorToys PowerUp", address |-> "A1"]
OtherToy == [name |-> "Other Toy", address |-> "A3"]
Nameless == [name |-> None, address |-> "A4"]

\* The scans of the model: the target name, and what the scan sees before its
\* timeout, in the order the transport yields it.
Scans ==
    { [target_name |-> DefaultTarget, seen |-> <<>>],
      [target_name |-> DefaultTarget, seen |-> <<Nameless, OtherToy>>],
      [target_name |-> DefaultTarget, seen |-> <<OtherToy, PowerUp>>],
      [target_name |-> "TAILORTOYS POWERUP", seen |-> <<PowerUp>>] }

\* lambda d, ad: d.name and d.name.lower() == target_name.lower()
name_filter(d, target_name) ==
    d.name # None /\ lower(d.name) = lower(target_name)

\* BleakScanner.find_device_by_filter: the first device seen that passes the
\* filter, no device when the timeout ends the scan first.
RECURSIVE find_device_by_filter(_, _)
find_device_by_filter(seen, target_name) ==
    IF seen = <<>> THEN NoDevice
    ELSE IF name_filter(Head(seen), target_name) THEN Head(seen)
    ELSE find_device_by_filter(Tail(seen), target_name)

\* Mutant: a scan without a match also marks the session disconnected.
connect_resets(target_name, seen, scanOk, ok) ==
    LET found == find_device_by_filter(seen, target_name)
        h == FreshHandle
        arg == [target_name |-> target_name, seen |-> seen]
        scan == Call("discover", 0, "", <<>>, scanOk)
    IN
    /\ (scanOk /\ found # NoDevice) => h # 0
    /\ IF ~scanOk THEN
          /\ last' = Result("connect", arg, "TransportError", None, <<scan>>)
          /\ UNCHANGED <<connected, client, device, links>>
       ELSE IF found = NoDevice THEN
          /\ device' = NoDevice
          /\ connected' = FALSE
          /\ last' = Result("connect", arg, "CouldNotFind",
                            <<FALSE, "CouldNotFind">>, <<scan>>)
          /\ UNCHANGED <<client, links>>
       ELSE
          /\ device' = found
          /\ client' = h
          /\ links' = [links EXCEPT ![h] = IF ok THEN "open" ELSE "created"]
          /\ connected' = IF ok THEN TRUE ELSE connected
          /\ last' = Result("connect", arg,
                            IF ok THEN "ok" ELSE "TransportError",
                            IF ok THEN TRUE ELSE None,
                            <<scan, Call("open", h, found.address, <<>>, ok)>>)
    /\ UNCHANGED <<subs, delivered, handlerCalls>>

\* seen: what the scan sees; scanOk: FALSE when the scan itself raises;
\* ok: FALSE when BleakClient.connect() raises.
connect(target_name, seen, scanOk, ok) ==
    LET found == find_device_by_filter(seen, target_name)
        h == FreshHandle
        arg == [target_name |-> target_name, seen |-> seen]
        scan == Call("discover", 0, "", <<>>, scanOk)
    IN
    /\ (scanOk /\ found # NoDevice) => h # 0
    /\ IF ~scanOk THEN
          /\ last' = Result("connect", arg, "TransportError", None, <<scan>>)
          /\ UNCHANGED <<connected, client, device, links>>
       ELSE IF found = NoDevice THEN
          /\ device' = NoDevice
          /\ last' = Result("connect", arg, "CouldNotFind",
                            <<FALSE, "CouldNotFind">>, <<scan>>)
          /\ UNCHANGED <<connected, client, links>>
       ELSE
          /\ device' = found
          /\ client' = h
          /\ links' = [links EXCEPT ![h] = IF ok THEN "open" ELSE "created"]
          /\ connected' = IF ok THEN TRUE ELSE connected
          /\ last' = Result("connect", arg,
                            IF ok THEN "ok" ELSE "TransportError",
                            IF ok THEN TRUE ELSE None,
                            <<scan, Call("open", h, found.address, <<>>, ok)>>)
    /\ UNCHANGED <<subs, delivered, handlerCalls>>

----------------------------------------------------------------------------
(* disconnect *)

\* ok: FALSE when BleakClient.disconnect() raises (the teardown of an open
\* link times out or the bus reports an error).
disconnect(ok) ==
    IF client # 0 /\ connected THEN
        LET done == ~LinkUp(client) \/ ok IN
        /\ links' = IF done /\ LinkUp(client)
                    THEN [links EXCEPT ![client] = "closed"] ELSE links
        /\ connected' = IF done THEN FALSE ELSE connected
        /\ last' = Result("disconnect", None,
                          IF done THEN "ok" ELSE "TransportError", None,
                          <<Call("close", client, "", <<>>, done)>>)
        /\ UNCHANGED <<client, device, subs, delivered, handlerCalls>>
    ELSE
        /\ last' = Result("disconnect", None, "ok", None, <<>>)
        /\ UNCHANGED <<connected, client, device, links, subs, delivered,
                       handlerCalls>>

----------------------------------------------------------------------------
(* The control and telemetry operations. *)

\* Mutant: the range check admits 255.
ValidSpeed_upto255(speed) == MinSpeed <= speed /\ speed <= MaxSpeed + 1
ValidSpeed(speed) == MinSpeed <= speed /\ speed <= MaxSpeed
ValidAngle(angle) == MinAngle <= angle /\ angle <= MaxAngle

\* speed_hex = bytes([speed])
speed_hex(speed) == bytes(<<speed>>)
\* Mutant: the mask drops the sign bit.
angle_hex_7bit(angle) == bytes(<<BitAnd(angle, 127)>>)
\* angle_hex = bytes([angle & 0xFF])
angle_hex(angle) == bytes(<<BitAnd(angle, ByteMask)>>)

set_motor_speed(speed, ok) ==
    /\ last' =
         IF ~connected THEN
             Result("set_motor_speed", speed, "NotConnected", None, <<>>)
         ELSE IF ~ValidSpeed(speed) THEN
             Result("set_motor_speed", speed, "InvalidArgument", None, <<>>)
         ELSE
             LET w == TransportOk(client, ok) IN
             Result("set_motor_speed", speed,
                    IF w THEN "ok" ELSE "TransportError", None,
                    <<Call("write", client, MOTOR_CONTROL_UUID,
                           speed_hex(speed), w)>>)
    /\ UNCHANGED <<connected, client, device, links, subs, delivered,
                   handlerCalls>>

set_rudder_angle(angle, ok) ==
    /\ last' =
         IF ~connected THEN
             Result("set_rudder_angle", angle, "NotConnected", None, <<>>)
         ELSE IF ~ValidAngle(angle) THEN
             Result("set_rudder_angle", angle, "InvalidArgument", None, <<>>)
         ELSE
             LET w == TransportOk(client, ok) IN
             Result("set_rudder_angle", angle,
                    IF w THEN "ok" ELSE "TransportError", None,
                    <<Call("write", client, RUDDER_CONTROL_UUID,
                           angle_hex(angle), w)>>)
    /\ UNCHANGED <<connected, client, device, links, subs, delivered,
                   handlerCalls>>

\* Mutant: no connection check before the read.
get_battery_level_unguarded(data, ok) ==
    /\ last' =
         LET r == TransportOk(client, ok) IN
         Result("get_battery_level", None,
                IF r THEN "ok" ELSE "TransportError",
                IF r THEN int_first(data) ELSE None,
                <<Call("read", client, BATTERY_LEVEL_UUID,
                       IF r THEN data ELSE <<>>, r)>>)
    /\ UNCHANGED <<connected, client, device, links, subs, delivered,
                   handlerCalls>>

\* data: the bytes the device answers with; ok: FALSE when the read raises.
get_battery_level(data, ok) ==
    /\ last' =
         IF ~connected THEN
             Result("get_battery_level", None, "NotConnected", None, <<>>)
         ELSE
             LET r == TransportOk(client, ok) IN
             Result("get_battery_level", None,
                    IF r THEN "ok" ELSE "TransportError",
                    IF r THEN int_first(data) ELSE None,
                    <<Call("read", client, BATTERY_LEVEL_UUID,
                           IF r THEN data ELSE <<>>, r)>>)
    /\ UNCHANGED <<connected, client, device, links, subs, delivered,
                   handlerCalls>>

get_charging_status(data, ok) ==
    /\ last' =
         IF ~connected THEN
             Result("get_charging_status", None, "NotConnected", None, <<>>)
         ELSE
             LET r == TransportOk(client, ok) IN
             Result("get_charging_status", None,
                    IF r THEN "ok" ELSE "TransportError",
                    IF r THEN bool_first(data) ELSE None,
                    <<Call("read", client, BATTERY_CHARGING_UUID,
                           IF r THEN data ELSE <<>>, r)>>)
    /\ UNCHANGED <<connected, client, device, links, subs, delivered,
                   handlerCalls>>

----------------------------------------------------------------------------
(* Battery notifications. *)

Callbacks == {"on_battery", "on_battery_2"}

\* Mutant: the handler calls the callback twice.
notification_handler_twice(callback, data) ==
    <<[callback |-> callback, battery_level |-> data[1]],
      [callback |-> callback, battery_level |-> data[1]]>>

\* notification_handler(sender, data): the invocations of callback it makes.
notification_handler(callback, data) ==
    <<[callback |-> callback, battery_level |-> int_first(data)]>>

\* ok: FALSE when start_notify raises.  The transport keeps one callback per
\* characteristic of a client.
enable_battery_notifications(callback, ok) ==
    IF ~connected THEN
        /\ last' = Result("enable_battery_notifications", callback,
                          "NotConnected", None, <<>>)
        /\ UNCHANGED <<connected, client, device, links, subs, delivered,
                       handlerCalls>>
    ELSE
        LET s == TransportOk(client, ok) IN
        /\ subs' = IF s THEN [subs EXCEPT ![client] = callback] ELSE subs
        /\ last' = Result("enable_battery_notifications", callback,
                          IF s THEN "ok" ELSE "TransportError", None,
                          <<Call("subscribe", client, BATTERY_LEVEL_UUID,
                                 <<>>, s)>>)
        /\ UNCHANGED <<connected, client, device, links, delivered,
                       handlerCalls>>

Payloads == {<<50>>, <<255>>, <<0, 50>>}

\* The transport delivers one notification of the battery-level
\* characteristic on link h to the handler registered there.
Notify(h, data) ==
    /\ LinkUp(h)
    /\ subs[h] # None
    /\ Len(delivered) < MaxDeliveries
    /\ delivered' = Append(delivered,
                           [link |-> h, callback |-> subs[h], data |-> data])
    /\ handlerCalls' = handlerCalls \o notification_handler(subs[h], data)
    /\ UNCHANGED <<connected, client, device, links, subs, last>>

\* The link of client h drops (out of range, device switched off).
LinkDrop(h) ==
    /\ LinkUp(h)
    /\ links' = [links EXCEPT ![h] = "dropped"]
    /\ UNCHANGED <<connected, client, device, subs, delivered, handlerCalls,
                   last>>

----------------------------------------------------------------------------
(* test_all_characteristics *)

\* The characteristics a service may list.  raises: whether a read of it
\* raises even while the link is up.
Chars ==
    { [uuid |-> BATTERY_LEVEL_UUID, properties |-> {"read", "notify"},
       value |-> <<100>>, raises |-> FALSE],
      [uuid |-> BATTERY_CHARGING_UUID, properties |-> {"read"},
       value |-> <<1>>, raises |-> TRUE],
      [uuid |-> MOTOR_CONTROL_UUID, properties |-> {"write"},
       value |-> <<>>, raises |-> TRUE] }

CharSeqs(n) == UNION {[1..k -> Chars] : k \in 0..n}

\* client.services: the two services of the device, the device service with
\* up to n characteristics and the battery service with at most one.
ServiceLists(n) ==
    { << [uuid |-> POWERUP_SERVICE_UUID, characteristics |-> a],
         [uuid |-> BATTERY_SERVICE_UUID, characteristics |-> b] >> :
      a \in CharSeqs(n), b \in CharSeqs(1) }

\* The body of the inner loop: try: if "read" in char.properties: read
\* except Exception: report.  Gives the transport calls made.
test_char(char, h) ==
    IF "read" \in char.properties
    THEN LET r == LinkUp(h) /\ ~char.raises IN
         <<Call("read", h, char.uuid, IF r THEN char.value ELSE <<>>, r)>>
    ELSE <<>>

\* Mutant: no try/except, the first failing read ends the loop.
RECURSIVE test_chars_abort(_, _)
test_chars_abort(chars, h) ==
    IF chars = <<>> THEN <<>>
    ELSE LET c == test_char(Head(chars), h) IN
         IF c # <<>> /\ ~c[1].ok THEN c
         ELSE c \o test_chars_abort(Tail(chars), h)

\* for char in service.characteristics
RECURSIVE test_chars(_, _)
test_chars(chars, h) ==
    IF chars = <<>> THEN <<>>
    ELSE test_char(Head(chars), h) \o test_chars(Tail(chars), h)

\* for service in services
RECURSIVE test_services(_, _)
test_services(services, h) ==
    IF services = <<>> THEN <<>>
    ELSE test_chars(Head(services).characteristics, h)
         \o test_services(Tail(services), h)

test_all_characteristics(services) ==
    /\ last' =
         IF ~connected THEN
             Result("test_all_characteristics", services, "NotConnected",
                    None, <<>>)
         ELSE
             Result("test_all_characteristics", services, "ok", None,
                    test_services(services, client))
    /\ UNCHANGED <<connected, client, device, links, subs, delivered,
                   handlerCalls>>

----------------------------------------------------------------------------
(* Specifications. *)

SpeedInputs == {0, 254, 255}
AngleInputs == {-129, -1, 127}
ByteInputs == {<<0>>, <<255>>}
ServiceInputs ==
    {sv \in ServiceLists(1) : \A i \in 1..2 : Len(sv[i].characteristics) = 1}

\* The session protocol: every operation, on a few inputs each, over up to
\* MaxLinks connections.
Next ==
    \/ \E sc \in Scans, so \in BOOLEAN, ok \in BOOLEAN :
          connect(sc.target_name, sc.seen, so, ok)
    \/ \E ok \in BOOLEAN : disconnect(ok)
    \/ \E speed \in SpeedInputs, ok \in BOOLEAN : set_motor_speed(speed, ok)
    \/ \E angle \in AngleInputs, ok \in BOOLEAN : set_rudder_angle(angle, ok)
    \/ \E d \in ByteInputs, ok \in BOOLEAN : get_battery_level(d, ok)
    \/ \E d \in ByteInputs, ok \in BOOLEAN : get_charging_status(d, ok)
    \/ \E ok \in BOOLEAN : enable_battery_notifications("on_battery", ok)
    \/ \E sv \in ServiceInputs : test_all_characteristics(sv)
    \/ \E h \in Handles : LinkDrop(h)

Spec == Init /\ [][Next]_vars

\* A caller that connects one client only: no connect after a client object
\* exists.
connect_once(target_name, seen, scanOk, ok) ==
    /\ client = 0
    /\ connect(target_name, seen, scanOk, ok)

\* The byte encodings, on every input within Slack of the documented ranges
\* and every byte a read can return: one specification per operation.
AllSpeeds == (MinSpeed - Slack)..(MaxSpeed + Slack)
AllAngles == (MinAngle - Slack)..(MaxAngle + Slack)
AllBytes == {<<b>> : b \in Byte}

NextMotor ==
    \/ \E sc \in Scans, so \in BOOLEAN, ok \in BOOLEAN :
          connect_once(sc.target_name, sc.seen, so, ok)
    \/ \E ok \in BOOLEAN : disconnect(ok)
    \/ \E speed \in AllSpeeds, ok \in BOOLEAN : set_motor_speed(speed, ok)
    \/ \E h \in Handles : LinkDrop(h)

SpecMotor == Init /\ [][NextMotor]_vars

NextRudder ==
    \/ \E sc \in Scans, so \in BOOLEAN, ok \in BOOLEAN :
          connect_once(sc.target_name, sc.seen, so, ok)
    \/ \E ok \in BOOLEAN : disconnect(ok)
    \/ \E angle \in AllAngles, ok \in BOOLEAN : set_rudder_angle(angle, ok)
    \/ \E h \in Handles : LinkDrop(h)

SpecRudder == Init /\ [][NextRudder]_vars

NextCharging ==
    \/ \E sc \in Scans, so \in BOOLEAN, ok \in BOOLEAN :
          connect_once(sc.target_name, sc.seen, so, ok)
    \/ \E ok \in BOOLEAN : disconnect(ok)
    \/ \E d \in AllBytes, ok \in BOOLEAN : get_charging_status(d, ok)
    \/ \E h \in Handles : LinkDrop(h)

SpecCharging == Init /\ [][NextCharging]_vars

\* Notifications: registration and delivery.
NextNotify ==
    \/ \E sc \in Scans, so \in BOOLEAN, ok \in BOOLEAN :
          connect_once(sc.target_name, sc.seen, so, ok)
    \/ \E ok \in BOOLEAN : disconnect(ok)
    \/ \E cb \in Callbacks, ok \in BOOLEAN :
          enable_battery_notifications(cb, ok)
    \/ \E h \in Handles, d \in Payloads : Notify(h, d)
    \/ \E h \in Handles : LinkDrop(h)

SpecNotify == Init /\ [][NextNotify]_vars

\* The diagnostic scan, on every listing of up to MaxChars characteristics
\* of the device service.
NextDiag ==
    \/ \E sc \in Scans, so \in BOOLEAN, ok \in BOOLEAN :
          connect_once(sc.target_name, sc.seen, so, ok)
    \/ \E ok \in BOOLEAN : disconnect(ok)
    \/ \E sv \in ServiceLists(MaxChars) : test_all_characteristics(sv)
    \/ \E h \in Handles : LinkDrop(h)

SpecDiag == Init /\ [][NextDiag]_vars

----------------------------------------------------------------------------
(* The claims. *)

ControlOps ==
    {"set_motor_speed", "set_rudder_angle", "get_battery_level",
     "get_charging_status", "enable_battery_notifications",
     "test_all_characteristics"}

\* C1: a control or telemetry operation called while the session is
\* disconnected fails with NotConnected and makes no transport call.
C1_NotConnectedNoTransport ==
    (last.op \in ControlOps /\ ~last.pre) =>
        (last.outcome = "NotConnected" /\ last.calls = <<>>)

\* An operation refused after a connection was opened and torn down again.
C1_Witness ==
    /\ last.op = "get_battery_level"
    /\ ~last.pre
    /\ last.outcome = "NotConnected"
    /\ client # 0
    /\ links[client] = "closed"

\* C2: while connected, a speed in [0,254] gives exactly one write of the
\* byte speed to the motor-control endpoint; any other speed gives no write
\* and InvalidArgument.
C2_MotorWrite ==
    (last.op = "set_motor_speed" /\ last.pre) =>
        IF last.arg \in 0..254
        THEN /\ Len(last.calls) = 1
             /\ last.calls[1].fn = "write"
             /\ last.calls[1].ep = MOTOR_CONTROL_UUID
             /\ last.calls[1].data = <<last.arg>>
             /\ last.outcome \in {"ok", "TransportError"}
        ELSE /\ last.calls = <<>>
             /\ last.outcome = "InvalidArgument"

C2_Witness ==
    /\ last.op = "set_motor_speed"
    /\ last.pre
    /\ last.arg = 254
    /\ last.outcome = "ok"
    /\ last.calls[1].data = <<254>>

\* C3: while connected, an angle in [-128,127] gives exactly one write of the
\* byte (angle + 256) mod 256 to the rudder-control endpoint; any other angle
\* gives no write and InvalidArgument.
C3_RudderWrite ==
    (last.op = "set_rudder_angle" /\ last.pre) =>
        IF last.arg \in -128..127
        THEN /\ Len(last.calls) = 1
             /\ last.calls[1].fn = "write"
             /\ last.calls[1].ep = RUDDER_CONTROL_UUID
             /\ last.calls[1].data = <<(last.arg + 256) % 256>>
             /\ last.outcome \in {"ok", "TransportError"}
        ELSE /\ last.calls = <<>>
             /\ last.outcome = "InvalidArgument"

C3_Witness ==
    /\ last.op = "set_rudder_angle"
    /\ last.pre
    /\ last.arg = -128
    /\ last.outcome = "ok"
    /\ last.calls[1].data = <<128>>

\* C4 (as claimed): every disconnect() leaves the session disconnected, and a
\* disconnect() right after a disconnect() makes no transport call.
C4_DisconnectLeavesDisconnected ==
    [][(\E ok \in BOOLEAN : disconnect(ok)) =>
          /\ ~connected'
          /\ (last.op = "disconnect" => last'.calls = <<>>)]_vars

\* C5 (as claimed): a connect whose scan finds no matching device returns
\* CouldNotFind, opens no connection and leaves the session disconnected.
NoMatch(arg) ==
    \A i \in 1..Len(arg.seen) :
        \/ arg.seen[i].name = None
        \/ lower(arg.seen[i].name) # lower(arg.target_name)

ScanMissed ==
    /\ last.op = "connect"
    /\ last.calls[1].ok
    /\ NoMatch(last.arg)

C5_NoMatchLeavesDisconnected ==
    ScanMissed =>
        /\ last.outcome = "CouldNotFind"
        /\ last.ret = <<FALSE, "CouldNotFind">>
        /\ \A i \in 1..Len(last.calls) : last.calls[i].fn # "open"
        /\ ~connected

\* C5 (amended): a connect whose scan finds no matching device returns
\* CouldNotFind, opens no connection and leaves the session state as it was:
\* disconnected if it was disconnected, connected if it was connected.
C5_NoMatchLeavesStateUnchanged ==
    ScanMissed =>
        /\ last.outcome = "CouldNotFind"
        /\ last.ret = <<FALSE, "CouldNotFind">>
        /\ \A i \in 1..Len(last.calls) : last.calls[i].fn # "open"
        /\ connected = last.pre

\* A scan that saw devices, none matching, on a connected session.
C5_Witness ==
    /\ ScanMissed
    /\ last.arg.seen # <<>>
    /\ last.pre
    /\ connected
    /\ last.outcome = "CouldNotFind"

\* C6 (as claimed): the session never has more than one transport connection
\* opened and not yet closed.
C6_AtMostOneLink == Cardinality(OpenLinks) <= 1

\* C7 (as claimed): when the transport call of an operation on a connected
\* session fails because the link has dropped, the session becomes
\* disconnected.
C7_DropReflected ==
    ( /\ last.op \in ControlOps
      /\ last.pre
      /\ last.outcome = "TransportError"
      /\ ~last.calls[1].up
      /\ links[last.calls[1].link] = "dropped" ) => ~connected

\* C8: the callback is invoked exactly once per delivered payload, in
\* delivery order, with the payload's first byte; nothing else invokes it
\* (registration does not).
C8_OncePerPayload ==
    handlerCalls =
        [i \in 1..Len(delivered) |->
            [callback |-> delivered[i].callback,
             battery_level |-> delivered[i].data[1]]]

C8_Witness ==
    /\ Len(delivered) >= 2
    /\ delivered[1].data = <<50>>
    /\ delivered[2].data = <<0, 50>>
    /\ handlerCalls[1].battery_level = 50
    /\ handlerCalls[2].battery_level = 0

\* C9: while connected, get_charging_status() makes exactly one read, of the
\* charging-status endpoint, and returns true for the first bytes 1..255 and
\* false for the byte 0.
C9_ChargingStatus ==
    (last.op = "get_charging_status" /\ last.pre) =>
        /\ Len(last.calls) = 1
        /\ last.calls[1].fn = "read"
        /\ last.calls[1].ep = BATTERY_CHARGING_UUID
        /\ (last.outcome = "ok" =>
               last.ret = (last.calls[1].data[1] \in 1..255))

C9_Witness ==
    /\ last.op = "get_charging_status"
    /\ last.pre
    /\ last.outcome = "ok"
    /\ last.calls[1].data = <<255>>
    /\ last.ret = TRUE

\* C10: while connected, test_all_characteristics() attempts exactly one read
\* on each listed characteristic that has the read property, in listing
\* order, none on the others, whichever reads fail, and ends without raising.
Listed(services) ==
    services[1].characteristics \o services[2].characteristics

Readable(c) == "read" \in c.properties

C10_ReadsEveryReadable ==
    (last.op = "test_all_characteristics" /\ last.pre) =>
        LET want == SelectSeq(Listed(last.arg), Readable) IN
        /\ last.outcome = "ok"
        /\ Len(last.calls) = Len(want)
        /\ \A i \in 1..Len(want) :
              /\ last.calls[i].fn = "read"
              /\ last.calls[i].ep = want[i].uuid

\* A failed read followed by a successful one, with an unreadable
\* characteristic in the listing.
C10_Witness ==
    /\ last.op = "test_all_characteristics"
    /\ last.pre
    /\ Len(last.calls) >= 2
    /\ ~last.calls[1].ok
    /\ last.calls[2].ok
    /\ \E i \in 1..Len(Listed(last.arg)) : ~Readable(Listed(last.arg)[i])

====
